---- MODULE Spec2Model ----
(***************************************************************************)
(* rust-jsx: parse() of src/src/lib.rs, the structural parser that turns   *)
(* a proc_macro2 token stream into one SnaxItem tree with an explicit      *)
(* stack of open tags.  The markup tokenizer (mod tokenizer,               *)
(* parse_html_token) is declared at lib.rs:1-3 but its file is not part of *)
(* the sources; it is modelled from the design document, within the types  *)
(* lib.rs fixes for it (HtmlToken has the four variants matched at         *)
(* lib.rs:131-188, TokenizeError the two variants matched at               *)
(* lib.rs:104-107).                                                        *)
(***************************************************************************)
EXTENDS Integers, Sequences, FiniteSets, TLC

(***************************************************************************)
(* Bounds of the model.                                                    *)
(***************************************************************************)
\* An input is the concatenation of at most MaxItems fragments.
MaxItems == 4

(***************************************************************************)
(* proc_macro2::TokenTree: Ident, Literal, Punct, Group.                   *)
(***************************************************************************)
Ident(n) == [type |-> "Ident", v |-> n]
Literal(s) == [type |-> "Literal", v |-> s]
Punct(c) == [type |-> "Punct", v |-> c]
Group(d, ts) == [type |-> "Group", v |-> d, inner |-> ts]

LT == Punct("<")
GT == Punct(">")
SLASH == Punct("/")
EQ == Punct("=")

\* { 5 + 5 }: a brace group with three inner tokens.
BraceExpr == Group("brace", <<Literal("5"), Punct("+"), Literal("5")>>)
\* ("hello"): a parenthesis group holding one literal.
ParenExpr == Group("paren", <<Literal("hello")>>)

(***************************************************************************)
(* tokenizer::HtmlToken, HtmlOpenToken and TokenizeError, as lib.rs uses   *)
(* them.                                                                   *)
(***************************************************************************)
SimpleAttribute(n, val) == [name |-> n, value |-> val]
HtmlOpenToken(n, attrs) == [name |-> n, attributes |-> attrs]
OpenTagToken(n, attrs) == [kind |-> "OpenTag", name |-> n, attributes |-> attrs]
CloseTagToken(n) == [kind |-> "CloseTag", name |-> n]
SelfClosingTagToken(n, attrs) ==
    [kind |-> "SelfClosingTag", name |-> n, attributes |-> attrs]
TextishToken(t) == [kind |-> "Textish", content |-> t]

TokenizeUnexpectedEnd == [kind |-> "UnexpectedEnd"]
TokenizeUnexpectedToken(t) == [kind |-> "UnexpectedToken", token |-> t]

\* Result<HtmlToken, TokenizeError> of one tokenizer call, with the cursor
\* position the call leaves behind.
TokOk(tok, p) == [ok |-> TRUE, token |-> tok, pos |-> p]
TokErr(e, p) == [ok |-> FALSE, error |-> e, pos |-> p]

(***************************************************************************)
(* The markup tokenizer, parse_html_token.  inp is the raw token sequence, *)
(* p the number of raw tokens the cursor has already yielded.              *)
(***************************************************************************)
IsAttributeValue(t) ==
    \/ t.type = "Literal"
    \/ t.type = "Group" /\ t.v = "brace"

RECURSIVE ParseAttributes(_, _, _, _)
ParseAttributes(inp, p, n, attrs) ==
    IF p >= Len(inp) THEN TokErr(TokenizeUnexpectedEnd, p)
    ELSE LET t == inp[p + 1] IN
      CASE t = GT -> TokOk(OpenTagToken(n, attrs), p + 1)
        [] t = SLASH ->
             IF p + 1 >= Len(inp) THEN TokErr(TokenizeUnexpectedEnd, p + 1)
             ELSE IF inp[p + 2] = GT
                  THEN TokOk(SelfClosingTagToken(n, attrs), p + 2)
                  ELSE TokErr(TokenizeUnexpectedToken(inp[p + 2]), p + 2)
        [] t.type = "Ident" ->
             IF p + 1 >= Len(inp) THEN TokErr(TokenizeUnexpectedEnd, p + 1)
             ELSE IF inp[p + 2] # EQ
                  THEN TokErr(TokenizeUnexpectedToken(inp[p + 2]), p + 2)
             ELSE IF p + 2 >= Len(inp) THEN TokErr(TokenizeUnexpectedEnd, p + 2)
             ELSE IF ~IsAttributeValue(inp[p + 3])
                  THEN TokErr(TokenizeUnexpectedToken(inp[p + 3]), p + 3)
             ELSE ParseAttributes(inp, p + 3, n,
                                  Append(attrs, SimpleAttribute(t.v, inp[p + 3])))
        [] OTHER -> TokErr(TokenizeUnexpectedToken(t), p + 1)

\* '<' '/' IDENT '>' with the cursor just after the '/'.
ParseCloseTag(inp, p) ==
    IF p >= Len(inp) THEN TokErr(TokenizeUnexpectedEnd, p)
    ELSE IF inp[p + 1].type # "Ident"
         THEN TokErr(TokenizeUnexpectedToken(inp[p + 1]), p + 1)
    ELSE IF p + 1 >= Len(inp) THEN TokErr(TokenizeUnexpectedEnd, p + 1)
    ELSE IF inp[p + 2] # GT
         THEN TokErr(TokenizeUnexpectedToken(inp[p + 2]), p + 2)
    ELSE TokOk(CloseTagToken(inp[p + 1].v), p + 2)

\* The construct after a leading '<', with the cursor just after it.
ParseTagHeader(inp, p) ==
    IF p >= Len(inp) THEN TokErr(TokenizeUnexpectedEnd, p)
    ELSE LET t == inp[p + 1] IN
      CASE t = SLASH -> ParseCloseTag(inp, p + 1)
        [] t.type = "Ident" -> ParseAttributes(inp, p + 1, t.v, <<>>)
        [] OTHER -> TokErr(TokenizeUnexpectedToken(t), p + 1)

\* What the tokenizer answers when the cursor is exhausted before a
\* construct starts.  Its result type leaves only TokenizeError for it.
EndOfStream(p) == TokErr(TokenizeUnexpectedEnd, p)

ParseHtmlToken(inp, p) ==
    IF p >= Len(inp) THEN EndOfStream(p)
    ELSE LET t == inp[p + 1] IN
      CASE t = LT -> ParseTagHeader(inp, p + 1)
        [] t.type \in {"Literal", "Ident", "Group"} -> TokOk(TextishToken(t), p + 1)
        [] OTHER -> TokErr(TokenizeUnexpectedToken(t), p + 1)

(***************************************************************************)
(* SnaxItem, SnaxTag, SnaxSelfClosingTag and ParseError.                   *)
(***************************************************************************)
SnaxTag(n, attrs, ch) ==
    [kind |-> "Tag", name |-> n, attributes |-> attrs, children |-> ch]
SnaxSelfClosingTag(n, attrs) ==
    [kind |-> "SelfClosingTag", name |-> n, attributes |-> attrs]
\* Mutation: a group is opened and its first inner token kept as the content.
ContentOfInner(t) ==
    [kind |-> "Content",
     content |-> IF t.type = "Group" /\ t.inner # <<>> THEN t.inner[1] ELSE t]

Content(t) == [kind |-> "Content", content |-> t]

UnexpectedEnd == [kind |-> "UnexpectedEnd"]
UnexpectedItem(tok) == [kind |-> "UnexpectedItem", item |-> tok]
UnexpectedToken(t) == [kind |-> "UnexpectedToken", token |-> t]

\* Mutation: the offending token is dropped, every error reads UnexpectedEnd.
FromTokenizeErrorAsEnd(error) == UnexpectedEnd

\* Mutation: the tokenizer's error is wrapped instead of converted.
FromTokenizeErrorWrapped(error) == UnexpectedItem(error)

\* impl From<TokenizeError> for ParseError
FromTokenizeError(error) ==
    IF error.kind = "UnexpectedEnd" THEN UnexpectedEnd
    ELSE UnexpectedToken(error.token)

\* What a call of parse has produced so far.
Running == [state |-> "Running"]
Ok(item) == [state |-> "Ok", item |-> item]
Err(e) == [state |-> "Err", error |-> e]
\* assert_eq! failed: the call unwinds with a panic and returns no value.
Panicked == [state |-> "Panic"]

(***************************************************************************)
(* The inputs: concatenations of at most MaxItems fragments.  A fragment   *)
(* is a whole tag construct, a tag header cut off before the value of its  *)
(* second attribute, or a single raw token, so that nesting, attributes    *)
(* and malformed constructs are all among the inputs.                      *)
(***************************************************************************)
Fragments ==
    { <<LT, Ident("div"), GT>>,
      <<LT, Ident("span"), GT>>,
      <<LT, SLASH, Ident("div"), GT>>,
      <<LT, SLASH, Ident("span"), GT>>,
      <<LT, Ident("br"), Ident("foo"), EQ, Literal("bar"),
        Ident("foo"), EQ, BraceExpr, SLASH, GT>>,
      <<LT, Ident("span"), Ident("sum"), EQ, Literal("bar"), Ident("sum"), EQ>>,
      <<Literal("hello")>>,
      <<BraceExpr>>,
      <<ParenExpr>>,
      <<Ident("x")>>,
      <<LT>>,
      <<GT>> }

RECURSIVE Concat(_)
Concat(fs) == IF fs = <<>> THEN <<>> ELSE Head(fs) \o Concat(Tail(fs))

Inputs ==
    { Concat(fs) : fs \in UNION { [1..n -> Fragments] : n \in 0..MaxItems } }

(***************************************************************************)
(* State of one call of parse.                                             *)
(***************************************************************************)
VARIABLES
    input,      \* the raw tokens of input_stream
    cursor,     \* how many of them the iterator `input` has yielded
    tag_stack,  \* Vec<(OpenToken, Vec<SnaxItem>)>, top last
    result,     \* Running, or what the call ended with
    processed   \* the markup tokens the loop has matched so far (history)

vars == <<input, cursor, tag_stack, result, processed>>

Init ==
    /\ input \in Inputs
    /\ cursor = 0
    /\ tag_stack = <<>>
    /\ result = Running
    /\ processed = <<>>

\* The loop runs until a return (or a panic) leaves the function.
Looping == result.state = "Running"

\* Mutation: every call is handed a fresh iterator over the whole stream.
NextTokenFromStart == ParseHtmlToken(input, 0)

\* parse_html_token(&mut input) at the head of the loop body.
NextToken == ParseHtmlToken(input, cursor)

Frame(open, children) == <<open, children>>
Top == tag_stack[Len(tag_stack)]
\* Mutation: the closed frame stays on the stack.
PopNothing(s) == s

\* tag_stack.pop(): the stack without its top frame
Pop(s) == SubSeq(s, 1, Len(s) - 1)

\* Mutation: the new child goes to the outermost open tag.
PushChildBottom(s, item) ==
    [s EXCEPT ![1] = <<s[1][1], Append(s[1][2], item)>>]

\* Mutation: the new child is put in front of its siblings.
PushChildFirst(s, item) ==
    [s EXCEPT ![Len(s)] = <<s[Len(s)][1], <<item>> \o s[Len(s)][2]>>]

\* parent_children.push(item) on tag_stack.last_mut()
PushChild(s, item) ==
    [s EXCEPT ![Len(s)] = <<s[Len(s)][1], Append(s[Len(s)][2], item)>>]

\* Mutation: what is left is looked at with a tokenizer call, whose error is
\* returned; only the end of the stream lets the root through.
ExpectEndByTokenizer(inp, c, item) ==
    IF c >= Len(inp) THEN Ok(item)
    ELSE IF ParseHtmlToken(inp, c).ok THEN Err(UnexpectedToken(inp[c + 1]))
    ELSE Err(FromTokenizeError(ParseHtmlToken(inp, c).error))

\* Mutation: the root is returned without looking at what is left.
ExpectEndUnchecked(inp, c, item) == Ok(item)

\* expect_end!(input); return Ok(item)
ExpectEnd(inp, c, item) ==
    IF c >= Len(inp) THEN Ok(item)
    ELSE Err(UnexpectedToken(inp[c + 1]))

\* The cursor after expect_end!: input.next() yields one token if any is left.
AfterExpectEnd(inp, c) == IF c >= Len(inp) THEN c ELSE c + 1

\* match tag_stack.last_mut(): the item is the root, or a child of the top.
Finish(s, c, item) ==
    IF s = <<>>
    THEN /\ result' = ExpectEnd(input, c, item)
         /\ cursor' = AfterExpectEnd(input, c)
         /\ tag_stack' = s
    ELSE /\ result' = result
         /\ cursor' = c
         /\ tag_stack' = PushChild(s, item)

\* Mutation: at the end of the stream an open tag is closed implicitly and
\* returned as the tree.
TokenizeErrorClosingOpenTags ==
    /\ Looping
    /\ ~NextToken.ok
    /\ result' = IF NextToken.error.kind = "UnexpectedEnd" /\ tag_stack # <<>>
                 THEN Ok(SnaxTag(Top[1].name, Top[1].attributes, Top[2]))
                 ELSE Err(FromTokenizeError(NextToken.error))
    /\ cursor' = NextToken.pos
    /\ UNCHANGED <<input, tag_stack, processed>>

\* parse_html_token(..)? with an Err: the error is converted and returned.
TokenizeError ==
    /\ Looping
    /\ ~NextToken.ok
    /\ result' = Err(FromTokenizeError(NextToken.error))
    /\ cursor' = NextToken.pos
    /\ UNCHANGED <<input, tag_stack, processed>>

OpenTag ==
    /\ Looping
    /\ NextToken.ok
    /\ NextToken.token.kind = "OpenTag"
    /\ LET opening_tag == HtmlOpenToken(NextToken.token.name,
                                        NextToken.token.attributes) IN
         tag_stack' = Append(tag_stack, Frame(opening_tag, <<>>))
    /\ cursor' = NextToken.pos
    /\ processed' = Append(processed, NextToken.token)
    /\ UNCHANGED <<input, result>>

\* Mutation: the unmatched close is reported as an exhausted stream.
UnmatchedCloseAsEnd(closing_tag) == Err(UnexpectedEnd)

\* tag_stack.pop().ok_or_else(..)? on an empty stack
UnmatchedClose(closing_tag) == Err(UnexpectedItem(closing_tag))

\* Mutation: the Tag lists its attributes last written first.
BuildTagReversedAttributes(opening_tag, children) ==
    [kind |-> "Tag", name |-> opening_tag.name,
     attributes |->
       [i \in 1..Len(opening_tag.attributes) |->
          opening_tag.attributes[Len(opening_tag.attributes) + 1 - i]],
     children |-> children]

\* Mutation: the Tag is built without the children collected in its frame.
BuildTagChildless(opening_tag, children) ==
    [kind |-> "Tag", name |-> opening_tag.name,
     attributes |-> opening_tag.attributes, children |-> <<>>]

\* let tag = SnaxTag { name, attributes, children }
BuildTag(opening_tag, children) ==
    SnaxTag(opening_tag.name, opening_tag.attributes, children)

\* assert_eq!(opening_tag.name, closing_tag.name)
NamesAgree(opening_tag, closing_tag) == opening_tag.name = closing_tag.name

\* Mutation: when the close empties the stack, the rest of the input is
\* looked at before the names are compared.
CloseTagExhaustionFirst ==
    /\ Looping
    /\ NextToken.ok
    /\ NextToken.token.kind = "CloseTag"
    /\ processed' = Append(processed, NextToken.token)
    /\ input' = input
    /\ LET closing_tag == NextToken.token IN
         IF tag_stack = <<>>
         THEN /\ result' = UnmatchedClose(closing_tag)
              /\ cursor' = NextToken.pos
              /\ tag_stack' = tag_stack
         ELSE LET opening_tag == Top[1]
                  children == Top[2]
              IN IF Len(tag_stack) = 1 /\ NextToken.pos < Len(input)
                 THEN /\ result' = Err(UnexpectedToken(input[NextToken.pos + 1]))
                      /\ cursor' = NextToken.pos + 1
                      /\ tag_stack' = Pop(tag_stack)
                 ELSE IF ~NamesAgree(opening_tag, closing_tag)
                 THEN /\ result' = Panicked
                      /\ cursor' = NextToken.pos
                      /\ tag_stack' = Pop(tag_stack)
                 ELSE Finish(Pop(tag_stack), NextToken.pos,
                             BuildTag(opening_tag, children))

CloseTag ==
    /\ Looping
    /\ NextToken.ok
    /\ NextToken.token.kind = "CloseTag"
    /\ processed' = Append(processed, NextToken.token)
    /\ input' = input
    /\ LET closing_tag == NextToken.token IN
         IF tag_stack = <<>>
         THEN /\ result' = UnmatchedClose(closing_tag)
              /\ cursor' = NextToken.pos
              /\ tag_stack' = tag_stack
         ELSE LET opening_tag == Top[1]
                  children == Top[2]
              IN IF ~NamesAgree(opening_tag, closing_tag)
                 THEN /\ result' = Panicked
                      /\ cursor' = NextToken.pos
                      /\ tag_stack' = Pop(tag_stack)
                 ELSE Finish(Pop(tag_stack), NextToken.pos,
                             BuildTag(opening_tag, children))

SelfClosingTag ==
    /\ Looping
    /\ NextToken.ok
    /\ NextToken.token.kind = "SelfClosingTag"
    /\ processed' = Append(processed, NextToken.token)
    /\ input' = input
    /\ Finish(tag_stack, NextToken.pos,
              SnaxSelfClosingTag(NextToken.token.name, NextToken.token.attributes))

Textish ==
    /\ Looping
    /\ NextToken.ok
    /\ NextToken.token.kind = "Textish"
    /\ processed' = Append(processed, NextToken.token)
    /\ input' = input
    /\ Finish(tag_stack, NextToken.pos, Content(NextToken.token.content))

Next ==
    \/ TokenizeError
    \/ OpenTag
    \/ CloseTag
    \/ SelfClosingTag
    \/ Textish

Spec == Init /\ [][Next]_vars

(***************************************************************************)
(* Properties.                                                             *)
(***************************************************************************)
\* The loop is about to match a CloseTag against a non-empty stack.
ClosingStep ==
    /\ Looping
    /\ NextToken.ok
    /\ NextToken.token.kind = "CloseTag"
    /\ tag_stack # <<>>

\* C1: a CloseTag whose name differs from the name of the frame it pops
\* makes parse return an Err value; the call never panics.
C1_MismatchIsRecoverable ==
    [][(ClosingStep /\ Top[1].name # NextToken.token.name)
         => result'.state = "Err"]_vars

\* The loop is about to finalize a root Item: a Content or SelfClosingTag on
\* the empty stack, or the CloseTag that names and pops the only frame.
RootStep ==
    /\ Looping
    /\ NextToken.ok
    /\ \/ tag_stack = <<>> /\ NextToken.token.kind \in {"SelfClosingTag", "Textish"}
       \/ /\ NextToken.token.kind = "CloseTag"
          /\ Len(tag_stack) = 1
          /\ Top[1].name = NextToken.token.name

\* C2: when a root Item is finalized and a raw token remains, parse fails
\* with UnexpectedToken carrying the first remaining raw token; a tree is
\* returned only with the whole input consumed.
C2_SingleRoot ==
    [][/\ (RootStep /\ NextToken.pos < Len(input))
           => result' = Err(UnexpectedToken(input[NextToken.pos + 1]))
       /\ result'.state = "Ok" => (RootStep /\ NextToken.pos = Len(input))]_vars

\* Two adjacent top-level literals: the second one is the unexpected token.
C2_Witness ==
    /\ input = <<Literal("hello"), BraceExpr>>
    /\ processed = <<TextishToken(Literal("hello"))>>
    /\ result = Err(UnexpectedToken(BraceExpr))

\* C3: a CloseTag met with the stack empty fails with UnexpectedItem carrying
\* that CloseTag, and the stack stays empty.
C3_UnmatchedClose ==
    [][(/\ Looping
        /\ NextToken.ok
        /\ NextToken.token.kind = "CloseTag"
        /\ tag_stack = <<>>)
         => /\ result' = Err(UnexpectedItem(CloseTagToken(NextToken.token.name)))
            /\ tag_stack' = <<>>]_vars

C3_Witness ==
    /\ processed = <<CloseTagToken("div")>>
    /\ result = Err(UnexpectedItem(CloseTagToken("div")))
    /\ tag_stack = <<>>

\* How many markup tokens of kind k the loop has matched.
Count(k) == Cardinality({i \in 1..Len(processed) : processed[i].kind = k})

\* C4: the depth of the stack is the number of OpenTags matched minus the
\* number of CloseTags matched (a CloseTag rejected on the empty stack, which
\* ends the call, pops nothing); the stack is empty at the start and at
\* every successful return.
C4_DepthIsNesting ==
    /\ processed = <<>> => tag_stack = <<>>
    /\ (result.state = "Err" /\ result.error.kind = "UnexpectedItem")
         => (tag_stack = <<>> /\ Count("OpenTag") = Count("CloseTag") - 1)
    /\ ~(result.state = "Err" /\ result.error.kind = "UnexpectedItem")
         => Len(tag_stack) = Count("OpenTag") - Count("CloseTag")
    /\ result.state = "Ok" => tag_stack = <<>>

\* A successful return after two levels of nesting were opened and closed.
C4_Witness ==
    /\ result.state = "Ok"
    /\ Count("OpenTag") = 2
    /\ Count("CloseTag") = 2
    /\ tag_stack = <<>>

\* C5: when the input is exhausted with a frame still open, parse fails with
\* UnexpectedEnd; the open tags are not closed and no tree is returned.
C5_UnclosedTagIsUnexpectedEnd ==
    [][/\ (Looping /\ cursor >= Len(input) /\ tag_stack # <<>>)
           => (result' = Err(UnexpectedEnd) /\ tag_stack' = tag_stack)
       /\ result'.state = "Ok"
           => Count("OpenTag")' = Count("CloseTag")']_vars

\* <div> "hello" and the end of the input.
C5_Witness ==
    /\ input = <<LT, Ident("div"), GT, Literal("hello")>>
    /\ cursor = Len(input)
    /\ Len(tag_stack) = 1
    /\ tag_stack[1][2] = <<Content(Literal("hello"))>>
    /\ result = Err(UnexpectedEnd)

\* C6: parse of the empty token sequence fails with UnexpectedEnd.
C6_EmptyInput ==
    [][input = <<>> => result' = Err(UnexpectedEnd)]_vars

C6_Witness ==
    /\ input = <<>>
    /\ processed = <<>>
    /\ result = Err(UnexpectedEnd)

\* The Tag that closing the top frame yields.
TagOfTop == [kind |-> "Tag", name |-> Top[1].name,
             attributes |-> Top[1].attributes, children |-> Top[2]]

\* The children of the top frame (none when no frame is open).
TopChildren == IF tag_stack = <<>> THEN <<>> ELSE Top[2]

\* <div><span></span></div>
NestedTags ==
    <<LT, Ident("div"), GT, LT, Ident("span"), GT,
      LT, SLASH, Ident("span"), GT, LT, SLASH, Ident("div"), GT>>

\* C7: a Tag is built only by the step that matches its CloseTag: that step
\* seals the popped frame's children into the Tag, which is the root when the
\* stack is now empty and otherwise the last child of the new top frame; no
\* other step yields a Tag; <div><span></span></div> gives div holding span.
C7_TagBuiltOnClose ==
    [][/\ (ClosingStep /\ Top[1].name = NextToken.token.name) =>
            IF Len(tag_stack) = 1
            THEN /\ tag_stack' = <<>>
                 /\ NextToken.pos = Len(input) => result' = Ok(TagOfTop)
                 /\ result'.state = "Ok" => result' = Ok(TagOfTop)
            ELSE /\ Len(tag_stack') = Len(tag_stack) - 1
                 /\ TopChildren' = Append(tag_stack[Len(tag_stack) - 1][2], TagOfTop)
                 /\ result' = Running
       /\ ~ClosingStep =>
            /\ result'.state = "Ok" => result'.item.kind # "Tag"
            /\ Len(tag_stack') > Len(tag_stack) => TopChildren' = <<>>
            /\ (Len(tag_stack') = Len(tag_stack) /\ TopChildren' # TopChildren) =>
                 TopChildren'[Len(TopChildren')].kind # "Tag"
       /\ (input = NestedTags /\ result'.state = "Ok") =>
            result'.item =
              [kind |-> "Tag", name |-> "div", attributes |-> <<>>,
               children |-> <<[kind |-> "Tag", name |-> "span",
                               attributes |-> <<>>, children |-> <<>>]>>]]_vars

C7_Witness ==
    /\ input = NestedTags
    /\ result.state = "Ok"
    /\ result.item.name = "div"
    /\ Len(result.item.children) = 1
    /\ result.item.children[1].name = "span"

\* The markup tokens an Item was built from, in input order.
RECURSIVE ItemTokens(_), ItemsTokens(_)
ItemTokens(item) ==
    CASE item.kind = "Tag" ->
           <<OpenTagToken(item.name, item.attributes)>>
             \o ItemsTokens(item.children)
             \o <<CloseTagToken(item.name)>>
      [] item.kind = "SelfClosingTag" ->
           <<SelfClosingTagToken(item.name, item.attributes)>>
      [] item.kind = "Content" -> <<TextishToken(item.content)>>

ItemsTokens(items) ==
    IF items = <<>> THEN <<>>
    ELSE ItemTokens(Head(items)) \o ItemsTokens(Tail(items))

\* The markup tokens the open frames hold, bottom frame first.
RECURSIVE StackTokens(_)
StackTokens(s) ==
    IF s = <<>> THEN <<>>
    ELSE StackTokens(SubSeq(s, 1, Len(s) - 1))
           \o <<OpenTagToken(s[Len(s)][1].name, s[Len(s)][1].attributes)>>
           \o ItemsTokens(s[Len(s)][2])

\* C8: every Tag holds exactly the items completed directly inside it, in
\* input order: reading the open frames (while parsing) or the returned tree
\* back into markup tokens gives the tokens matched so far, none reordered,
\* dropped or duplicated; a SelfClosingTag or Content is the root only when
\* it is the whole input.
C8_ChildrenInOrder ==
    /\ Looping => StackTokens(tag_stack) = processed
    /\ result.state = "Ok" => ItemTokens(result.item) = processed
    /\ (result.state = "Ok" /\ result.item.kind # "Tag") => Len(processed) = 1

\* <div> "hello" <br .. /> </div>: two children of different kinds, in order.
C8_Witness ==
    /\ result.state = "Ok"
    /\ result.item.kind = "Tag"
    /\ Len(result.item.children) = 2
    /\ result.item.children[1] = Content(Literal("hello"))
    /\ result.item.children[2].kind = "SelfClosingTag"

\* C9: every error ends the call at once: a step is taken only while no
\* result exists, and what the call ends with is Ok with one complete root
\* Item (the whole input, no frame left open) or Err with one ParseError.
C9_ErrorsAbort ==
    [][/\ Looping
       /\ result'.state \in {"Running", "Ok", "Err"}
       /\ result'.state = "Ok" =>
            (tag_stack' = <<>> /\ ItemTokens(result'.item) = processed')
       /\ result'.state = "Err" =>
            result'.error.kind \in
              {"UnexpectedEnd", "UnexpectedItem", "UnexpectedToken"}]_vars

\* C10 as stated: asked for a token with the cursor exhausted and no
\* construct begun, the tokenizer answers with something that is not an
\* error (neither UnexpectedEnd nor UnexpectedToken).
C10_EndOfStreamIsNotAnError ==
    (Looping /\ cursor >= Len(input)) =>
        (NextToken.ok \/ NextToken.error.kind
                           \notin {"UnexpectedEnd", "UnexpectedToken"})

\* C10, amended: asked for a token with the cursor exhausted and no construct
\* begun, the tokenizer answers Err(TokenizeError::UnexpectedEnd) without
\* moving the cursor, and parse returns it as ParseError::UnexpectedEnd,
\* leaving the stack as it was.
C10_EndOfStreamIsUnexpectedEnd ==
    [][(Looping /\ cursor >= Len(input)) =>
         /\ NextToken = [ok |-> FALSE, error |-> [kind |-> "UnexpectedEnd"],
                         pos |-> cursor]
         /\ result' = [state |-> "Err", error |-> [kind |-> "UnexpectedEnd"]]
         /\ cursor' = cursor
         /\ tag_stack' = tag_stack]_vars

\* <div> and nothing else: the second tokenizer call finds the cursor exhausted.
C10_Witness ==
    /\ input = <<LT, Ident("div"), GT>>
    /\ processed = <<OpenTagToken("div", <<>>)>>
    /\ cursor = 3
    /\ result = Err(UnexpectedEnd)

\* The raw tokens an attribute list is written with: IDENT '=' value each.
RECURSIVE RawAttributes(_)
RawAttributes(attrs) ==
    IF attrs = <<>> THEN <<>>
    ELSE <<[type |-> "Ident", v |-> Head(attrs).name], EQ, Head(attrs).value>>
           \o RawAttributes(Tail(attrs))

\* The raw tokens a markup token is written with.
RawTokens(tok) ==
    CASE tok.kind = "CloseTag" ->
           <<LT, SLASH, [type |-> "Ident", v |-> tok.name], GT>>
      [] tok.kind = "OpenTag" ->
           <<LT, [type |-> "Ident", v |-> tok.name]>>
             \o RawAttributes(tok.attributes) \o <<GT>>
      [] tok.kind = "SelfClosingTag" ->
           <<LT, [type |-> "Ident", v |-> tok.name]>>
             \o RawAttributes(tok.attributes) \o <<SLASH, GT>>
      [] tok.kind = "Textish" -> <<tok.content>>

RECURSIVE RawOfTokens(_)
RawOfTokens(toks) ==
    IF toks = <<>> THEN <<>>
    ELSE RawTokens(Head(toks)) \o RawOfTokens(Tail(toks))

\* The raw tokens from the cursor on start with the sequence ts.
Ahead(ts) ==
    /\ cursor + Len(ts) <= Len(input)
    /\ SubSeq(input, cursor + 1, cursor + Len(ts)) = ts

\* C11: each tokenizer call that meets a tag construct yields the one markup
\* token of that construct ('<' '/' IDENT '>' a CloseTag, '<' IDENT
\* attribute* '>' an OpenTag, '<' IDENT attribute* '/' '>' a SelfClosingTag)
\* and leaves the cursor just past the construct's raw tokens; so the tokens
\* matched so far are written exactly with the raw tokens consumed so far.
C11_OneTokenPerConstruct ==
    Looping =>
      /\ NextToken.ok =>
           /\ NextToken.pos > cursor
           /\ NextToken.pos <= Len(input)
           /\ RawTokens(NextToken.token)
                = SubSeq(input, cursor + 1, NextToken.pos)
      /\ \A n \in {"div", "span", "br", "x"} :
           LET id == [type |-> "Ident", v |-> n] IN
             /\ Ahead(<<LT, SLASH, id, GT>>) =>
                  NextToken = [ok |-> TRUE, pos |-> cursor + 4,
                               token |-> [kind |-> "CloseTag", name |-> n]]
             /\ Ahead(<<LT, id, GT>>) =>
                  NextToken = [ok |-> TRUE, pos |-> cursor + 3,
                               token |-> [kind |-> "OpenTag", name |-> n,
                                          attributes |-> <<>>]]
             /\ Ahead(<<LT, id, SLASH, GT>>) =>
                  NextToken = [ok |-> TRUE, pos |-> cursor + 4,
                               token |-> [kind |-> "SelfClosingTag", name |-> n,
                                          attributes |-> <<>>]]
      /\ RawOfTokens(processed) = SubSeq(input, 1, cursor)

\* <div> <br foo="bar" foo={ 5 + 5 } /> </div> ahead of the cursor: three
\* constructs gave three markup tokens and the cursor stands before </div>.
C11_Witness ==
    /\ Looping
    /\ Len(processed) = 2
    /\ processed[1].kind = "OpenTag"
    /\ processed[2].kind = "SelfClosingTag"
    /\ Len(processed[2].attributes) = 2
    /\ cursor = 13
    /\ NextToken.ok
    /\ NextToken.token = [kind |-> "CloseTag", name |-> "div"]
    /\ NextToken.pos = 17

\* The attributes written in a tag header, read off its raw tokens: the
\* header is '<' IDENT, then IDENT '=' value for each attribute, then '>' or
\* '/' '>'.
WrittenAttributes(header) ==
    LET closing == IF header[Len(header) - 1] = SLASH THEN 2 ELSE 1
        n == (Len(header) - 2 - closing) \div 3
    IN [i \in 1..n |-> [name |-> header[3 * i].v, value |-> header[3 * i + 2]]]

\* Every Tag and SelfClosingTag in a list of Items, outermost first.
RECURSIVE TagsIn(_)
TagsIn(items) ==
    IF items = <<>> THEN <<>>
    ELSE LET item == Head(items) IN
         (CASE item.kind = "Tag" -> <<item>> \o TagsIn(item.children)
            [] item.kind = "SelfClosingTag" -> <<item>>
            [] OTHER -> <<>>)
           \o TagsIn(Tail(items))

\* The tag headers among the markup tokens matched, in input order.
Headers(toks) ==
    SelectSeq(toks, LAMBDA t : t.kind \in {"OpenTag", "SelfClosingTag"})

\* C12: the attributes of an OpenTag or SelfClosingTag token are those
\* written in its header, in source order, duplicate names retained, each
\* value the one Literal or brace Group token as written; and every Tag or
\* SelfClosingTag of the returned tree carries the attribute list of the
\* header it was built from, unchanged.
C12_AttributesVerbatim ==
    /\ (Looping /\ NextToken.ok
           /\ NextToken.token.kind \in {"OpenTag", "SelfClosingTag"}) =>
         LET attrs == NextToken.token.attributes IN
           /\ attrs = WrittenAttributes(SubSeq(input, cursor + 1, NextToken.pos))
           /\ \A i \in 1..Len(attrs) :
                \/ attrs[i].value.type = "Literal"
                \/ attrs[i].value.type = "Group" /\ attrs[i].value.v = "brace"
    /\ result.state = "Ok" =>
         LET tags == TagsIn(<<result.item>>)
             hdrs == Headers(processed)
         IN /\ Len(tags) = Len(hdrs)
            /\ \A i \in 1..Len(tags) :
                 /\ tags[i].name = hdrs[i].name
                 /\ tags[i].attributes = hdrs[i].attributes

\* <span sum="bar" sum={ 5 + 5 }></span>: both attributes named sum are kept,
\* in the order written, the brace group as one token.
C12_Witness ==
    /\ result.state = "Ok"
    /\ result.item.kind = "Tag"
    /\ result.item.attributes =
         <<[name |-> "sum", value |-> [type |-> "Literal", v |-> "bar"]],
           [name |-> "sum", value |-> BraceExpr]>>

\* A raw token that begins no tag construct: a Literal, an Ident or a Group.
IsContentToken(t) == t.type \in {"Literal", "Ident", "Group"}

\* The last n raw tokens consumed are content tokens directly after a '>'.
ContentRun(n) ==
    /\ cursor - n >= 1
    /\ input[cursor - n] = GT
    /\ \A i \in 1..n : IsContentToken(input[cursor - n + i])

\* C13: a Literal, a bare Ident or a Group of any delimiter at the start of a
\* construct is consumed whole as one Textish token holding that very token;
\* alone it parses to Content of it; and n such tokens in a row inside an
\* open tag are the last n children of that tag, one Content each, in order.
C13_ContentIsOneToken ==
    /\ (Looping /\ cursor < Len(input) /\ IsContentToken(input[cursor + 1])) =>
         NextToken = [ok |-> TRUE, pos |-> cursor + 1,
                      token |-> [kind |-> "Textish", content |-> input[cursor + 1]]]
    /\ (~Looping /\ Len(input) = 1 /\ IsContentToken(input[1])) =>
         result = [state |-> "Ok",
                   item |-> [kind |-> "Content", content |-> input[1]]]
    /\ (Looping /\ tag_stack # <<>>) =>
         \A n \in 1..cursor :
           ContentRun(n) =>
             /\ Len(Top[2]) >= n
             /\ \A i \in 1..n :
                  Top[2][Len(Top[2]) - n + i]
                    = [kind |-> "Content", content |-> input[cursor - n + i]]

\* <div> "hello" ("hello") x: three contents in a row, three children.
C13_Witness ==
    /\ Looping
    /\ Len(tag_stack) = 1
    /\ ContentRun(3)
    /\ Top[2] = <<[kind |-> "Content", content |-> Literal("hello")],
                  [kind |-> "Content", content |-> ParenExpr],
                  [kind |-> "Content", content |-> Ident("x")]>>

\* The grammar of a tag construct as an automaton over raw tokens, started
\* after the leading '<': the state a token leads to, "dead" if the grammar
\* has no place for it.
HeaderStep(st, t) ==
    CASE st = "lt" ->
           (CASE t = SLASH -> "close" [] t.type = "Ident" -> "attrs"
              [] OTHER -> "dead")
      [] st = "close" -> IF t.type = "Ident" THEN "closename" ELSE "dead"
      [] st = "closename" -> IF t = GT THEN "done" ELSE "dead"
      [] st = "attrs" ->
           (CASE t = GT -> "done" [] t = SLASH -> "slash"
              [] t.type = "Ident" -> "eq" [] OTHER -> "dead")
      [] st = "slash" -> IF t = GT THEN "done" ELSE "dead"
      [] st = "eq" -> IF t = EQ THEN "value" ELSE "dead"
      [] st = "value" ->
           IF t.type = "Literal" \/ (t.type = "Group" /\ t.v = "brace")
           THEN "attrs" ELSE "dead"

\* How a construct ends: complete, cut off by the end of the stream, or
\* broken by a token the grammar has no place for.
RECURSIVE WalkHeader(_, _, _)
WalkHeader(inp, p, st) ==
    IF st = "done" THEN [outcome |-> "complete", pos |-> p]
    ELSE IF p >= Len(inp) THEN [outcome |-> "end", pos |-> p]
    ELSE IF HeaderStep(st, inp[p + 1]) = "dead"
         THEN [outcome |-> "unexpected", pos |-> p + 1, token |-> inp[p + 1]]
    ELSE WalkHeader(inp, p + 1, HeaderStep(st, inp[p + 1]))

\* C14: a tag construct that is cut off by the end of the stream makes parse
\* fail with UnexpectedEnd, and one broken by a wrong token (no identifier
\* after '<', no '>' where the header must end, no '=' or no Literal or brace
\* Group for an attribute) makes it fail with UnexpectedToken carrying that
\* token; nothing is pushed or matched.
C14_MalformedHeader ==
    [][(Looping /\ cursor < Len(input) /\ input[cursor + 1] = LT) =>
         LET w == WalkHeader(input, cursor + 1, "lt") IN
           /\ w.outcome = "end" =>
                result' = [state |-> "Err", error |-> [kind |-> "UnexpectedEnd"]]
           /\ w.outcome = "unexpected" =>
                result' = [state |-> "Err",
                           error |-> [kind |-> "UnexpectedToken",
                                      token |-> w.token]]
           /\ w.outcome # "complete" =>
                /\ ~NextToken.ok
                /\ cursor' = w.pos
                /\ tag_stack' = tag_stack
                /\ processed' = processed
           /\ w.outcome = "complete" => (NextToken.ok /\ NextToken.pos = w.pos)]_vars

\* <div> <span sum="bar" sum= >: the second attribute has '>' for a value.
C14_Witness ==
    /\ input = <<LT, Ident("div"), GT,
                 LT, Ident("span"), Ident("sum"), EQ, Literal("bar"),
                 Ident("sum"), EQ, GT>>
    /\ Len(tag_stack) = 1
    /\ cursor = Len(input)
    /\ result = Err(UnexpectedToken(GT))

\* <span sum="bar" sum= and the end of the stream.
C14_WitnessEnd ==
    /\ input = <<LT, Ident("span"), Ident("sum"), EQ, Literal("bar"),
                 Ident("sum"), EQ>>
    /\ result = Err(UnexpectedEnd)

\* Stands for a construct that does not tokenize.
Malformed == <<[type |-> "Malformed", v |-> ""]>>

\* The constructs of the whole input, each as its raw tokens, with Malformed
\* in place of the rest when a construct does not tokenize.
RECURSIVE TokensFrom(_, _)
TokensFrom(inp, p) ==
    IF p >= Len(inp) THEN <<>>
    ELSE LET w == IF inp[p + 1] = LT THEN WalkHeader(inp, p + 1, "lt")
                  ELSE IF IsContentToken(inp[p + 1])
                       THEN [outcome |-> "complete", pos |-> p + 1]
                       ELSE [outcome |-> "unexpected", pos |-> p + 1]
         IN IF w.outcome # "complete" THEN <<Malformed>>
            ELSE <<SubSeq(inp, p + 1, w.pos)>> \o TokensFrom(inp, w.pos)

\* The kind and name of a construct given by its raw tokens.
ConstructKind(c) ==
    IF c[1].type = "Malformed" THEN "malformed"
    ELSE IF c[1] # LT THEN "content"
    ELSE IF c[2] = SLASH THEN "close"
    ELSE IF c[Len(c) - 1] = SLASH THEN "selfclosing"
    ELSE "open"
ConstructName(c) == IF ConstructKind(c) = "close" THEN c[3].v ELSE c[2].v

\* item := tag | self_closing_tag | content, read from construct i of cs:
\* the Item and the index after it, or FALSE when no item starts there.
RECURSIVE ReadItem(_, _), ReadItems(_, _, _)
ReadItem(cs, i) ==
    IF i > Len(cs) THEN [ok |-> FALSE]
    ELSE LET c == cs[i] IN
      CASE ConstructKind(c) = "content" ->
             [ok |-> TRUE, next |-> i + 1,
              item |-> [kind |-> "Content", content |-> c[1]]]
        [] ConstructKind(c) = "selfclosing" ->
             [ok |-> TRUE, next |-> i + 1,
              item |-> [kind |-> "SelfClosingTag", name |-> ConstructName(c),
                        attributes |-> WrittenAttributes(c)]]
        [] ConstructKind(c) = "open" ->
             LET body == ReadItems(cs, i + 1, <<>>) IN
               IF /\ body.next <= Len(cs)
                  /\ ConstructKind(cs[body.next]) = "close"
                  /\ ConstructName(cs[body.next]) = ConstructName(c)
               THEN [ok |-> TRUE, next |-> body.next + 1,
                     item |-> [kind |-> "Tag", name |-> ConstructName(c),
                               attributes |-> WrittenAttributes(c),
                               children |-> body.items]]
               ELSE [ok |-> FALSE]
        [] OTHER -> [ok |-> FALSE]

\* item*: as many items as start at construct i.
ReadItems(cs, i, acc) ==
    LET r == ReadItem(cs, i) IN
      IF r.ok THEN ReadItems(cs, r.next, Append(acc, r.item))
      ELSE [next |-> i, items |-> acc]

\* The whole input is one item of the grammar, nothing before or after.
WholeInputItem ==
    LET cs == TokensFrom(input, 0)
        r == ReadItem(cs, 1)
    IN IF r.ok /\ r.next = Len(cs) + 1 THEN r ELSE [ok |-> FALSE]

\* C15: parse ends with Ok exactly when the whole input is one item of the
\* grammar (close names equal to open names, nothing after it), the tree
\* being that item; on every other input it ends with an error.
C15_OkIffOneItem ==
    ~Looping =>
      IF WholeInputItem.ok
      THEN result = [state |-> "Ok", item |-> WholeInputItem.item]
      ELSE result.state = "Err"

\* What the code does: as C15, but an input whose first flaw is a CloseTag
\* naming another tag than the one open ends in the panic of assert_eq!.
C15_OkIffOneItemOrPanic ==
    ~Looping =>
      IF WholeInputItem.ok
      THEN result = [state |-> "Ok", item |-> WholeInputItem.item]
      ELSE result.state \in {"Err", "Panic"}

\* C16: every iteration of the loop either returns Ok or Err or moves the
\* cursor forward by at least one raw token, and the cursor never passes the
\* end of the input: the loop runs at most Len(input) + 1 times.
C16_EveryIterationAdvances ==
    [][/\ result'.state \in {"Ok", "Err"} \/ cursor' > cursor
       /\ cursor' <= Len(input)
       /\ Len(processed') <= cursor']_vars

\* <div> <span> "hello" x: four iterations, the whole input consumed, and
\* the loop still running (its next iteration returns).
C16_Witness ==
    /\ Looping
    /\ Len(processed) = 4
    /\ Len(tag_stack) = 2
    /\ cursor = Len(input)
    /\ cursor = 8

\* C17: a CloseTag is checked in this order: the empty stack first
\* (UnexpectedItem, whatever its name and whatever follows), then its name
\* against the popped frame's, and the rest of the input only when the names
\* agree and the stack became empty.  So a mismatched root CloseTag followed
\* by more tokens ends as the name mismatch (the failed assert_eq!), not as
\* UnexpectedToken, without looking at the token after it; and a mismatched
\* inner CloseTag leaves its parent's children as they were.
C17_CloseTagCheckOrder ==
    [][(Looping /\ NextToken.ok /\ NextToken.token.kind = "CloseTag") =>
         IF tag_stack = <<>>
         THEN /\ result'.state = "Err"
              /\ result'.error.kind = "UnexpectedItem"
         ELSE IF Top[1].name # NextToken.token.name
         THEN /\ result' = [state |-> "Panic"]
              /\ cursor' = NextToken.pos
              /\ tag_stack' = SubSeq(tag_stack, 1, Len(tag_stack) - 1)
         ELSE IF Len(tag_stack) = 1
         THEN IF NextToken.pos < Len(input)
              THEN /\ result'.state = "Err"
                   /\ result'.error.kind = "UnexpectedToken"
                   /\ cursor' = NextToken.pos + 1
              ELSE result'.state = "Ok"
         ELSE /\ result' = result
              /\ cursor' = NextToken.pos]_vars

\* <div></span> "hello": the mismatch ends the call, "hello" is not read.
C17_Witness ==
    /\ input = <<LT, Ident("div"), GT, LT, SLASH, Ident("span"), GT,
                 Literal("hello")>>
    /\ result.state = "Panic"
    /\ cursor = 7
    /\ tag_stack = <<>>

\* The frames of s below index n.
Below(s, n) == SubSeq(s, 1, n - 1)

\* C18: a step touches only the top of the stack.  OpenTag pushes one frame
\* with no children onto the unchanged stack; SelfClosingTag and Content
\* under an open tag append one child to the top frame and leave its
\* descriptor, the depth and the frames below as they were; CloseTag removes
\* the top frame and, when a frame is left, appends one child to the frame
\* just below and changes nothing else.
C18_OnlyTheTopChanges ==
    [][(Looping /\ NextToken.ok) =>
         LET d == Len(tag_stack)
             tok == NextToken.token
         IN CASE tok.kind = "OpenTag" ->
                   /\ Len(tag_stack') = d + 1
                   /\ Below(tag_stack', d + 1) = tag_stack
                   /\ tag_stack'[d + 1]
                        = <<[name |-> tok.name, attributes |-> tok.attributes],
                            <<>>>>
              [] tok.kind \in {"SelfClosingTag", "Textish"} /\ d > 0 ->
                   /\ Len(tag_stack') = d
                   /\ Below(tag_stack', d) = Below(tag_stack, d)
                   /\ tag_stack'[d][1] = tag_stack[d][1]
                   /\ Len(tag_stack'[d][2]) = Len(tag_stack[d][2]) + 1
                   /\ SubSeq(tag_stack'[d][2], 1, Len(tag_stack[d][2]))
                        = tag_stack[d][2]
                   /\ tag_stack'[d][2][Len(tag_stack[d][2]) + 1].kind
                        = IF tok.kind = "Textish" THEN "Content" ELSE tok.kind
              [] tok.kind = "CloseTag" /\ d > 0 ->
                   /\ Len(tag_stack') = d - 1
                   /\ Below(tag_stack', d - 1) = Below(tag_stack, d - 1)
                   /\ (d > 1 /\ tag_stack[d][1].name = tok.name) =>
                        /\ tag_stack'[d - 1][1] = tag_stack[d - 1][1]
                        /\ tag_stack'[d - 1][2]
                             = Append(tag_stack[d - 1][2],
                                      [kind |-> "Tag",
                                       name |-> tag_stack[d][1].name,
                                       attributes |-> tag_stack[d][1].attributes,
                                       children |-> tag_stack[d][2]])
                   /\ (d > 1 /\ tag_stack[d][1].name # tok.name) =>
                        tag_stack'[d - 1] = tag_stack[d - 1]
              [] OTHER -> tag_stack' = tag_stack]_vars

\* <div> "hello" <span> </span>: closing span appended one child to div's
\* frame, after "hello", and removed span's frame.
C18_Witness ==
    /\ Looping
    /\ Len(processed) = 4
    /\ processed[4].kind = "CloseTag"
    /\ Len(tag_stack) = 1
    /\ Len(tag_stack[1][2]) = 2
    /\ tag_stack[1][2][1].kind = "Content"
    /\ tag_stack[1][2][2].kind = "Tag"
    /\ tag_stack[1][2][2].name = "span"

\* The loop is about to append to an open tag, or to push one: no root is
\* finalized by this step.
InnerStep ==
    /\ Looping
    /\ NextToken.ok
    /\ \/ NextToken.token.kind = "OpenTag"
       \/ tag_stack # <<>> /\ NextToken.token.kind \in {"SelfClosingTag", "Textish"}
       \/ /\ NextToken.token.kind = "CloseTag"
          /\ Len(tag_stack) > 1
          /\ Top[1].name = NextToken.token.name

\* C19: after a root is finalized the next raw token alone is looked at, not
\* the next construct: when what follows the root would not tokenize (it is
\* cut off or malformed) or is a construct of several raw tokens, parse
\* still fails with UnexpectedToken carrying the first raw token after the
\* root and has consumed that one token only; and a step that finalizes no
\* root looks at nothing beyond its own construct.
C19_ExhaustionLooksAtRawToken ==
    [][/\ (RootStep /\ NextToken.pos < Len(input)) =>
            LET after == ParseHtmlToken(input, NextToken.pos) IN
              (~after.ok \/ after.pos > NextToken.pos + 1) =>
                /\ result' = [state |-> "Err",
                              error |-> [kind |-> "UnexpectedToken",
                                         token |-> input[NextToken.pos + 1]]]
                /\ cursor' = NextToken.pos + 1
       /\ InnerStep => (result' = result /\ cursor' = NextToken.pos)]_vars

\* <br foo="bar" foo={ 5 + 5 } /> and a lone '<': the '<' is the unexpected
\* token, though a tokenizer call there would report the end of the stream.
C19_Witness ==
    /\ input = <<LT, Ident("br"), Ident("foo"), EQ, Literal("bar"),
                 Ident("foo"), EQ, BraceExpr, SLASH, GT, LT>>
    /\ processed = <<SelfClosingTagToken("br",
                        <<SimpleAttribute("foo", Literal("bar")),
                          SimpleAttribute("foo", BraceExpr)>>)>>
    /\ result = Err(UnexpectedToken(LT))
    /\ cursor = 11
====
